---- MODULE Spec2Model ----
(***************************************************************************)
(* A model of rhesus-macaque: the translation-gap run of src/main.rs and   *)
(* the automatic translator backend of src/translator.rs.                  *)
(*                                                                         *)
(* The site (configuration dump of hugo, draft list of hugo, files of the  *)
(* content directories) is the environment of a run; the answers of the    *)
(* translator backend and the outcome of each fallible I/O call are inputs *)
(* of the step that makes the call.                                        *)
(***************************************************************************)
EXTENDS Integers, Sequences, FiniteSets, TLC

(* ------------------------------ bounds -------------------------------- *)

\* Markdown pages present in the content directories before the first run.
MaxFiles == 2
\* Entries of module.mounts in the configuration dump.
MaxMounts == 2

(* ----------------------------- universes ------------------------------ *)

\* Option::None of mount.lang, and of an absent translationKey.
None == "None"

Langs == {"en", "fr", "de"}

Keys == {"alpha", "beta"}

\* Paths relative to a content directory.
RelPaths == {"a.md", "b.md"}

\* The sentinel of DryRunTranslator::translate_path: an absolute path.
DevNull == "/dev/null"

\* mount.source of the mount that carries a language (root.join(source) is
\* the content directory; the root is the same for all, and is left out).
SourceOf(lang) == IF lang = None THEN "static" ELSE "content/" \o lang

\* The languages a mount may carry; "de" is only ever a key of `languages`.
MountLangs == {"en", "fr"}

Mounts == {[lang |-> l, source |-> SourceOf(l)] : l \in MountLangs \cup {None}}

ContentDirs == {SourceOf(l) : l \in MountLangs}

\* A file's text, as far as the front-matter extractor reads it: the
\* translationKey of the YAML between the first two `---` lines, None when
\* there are no two such lines or the YAML between them gives no key.
Contents == [translationKey : Keys \cup {None}]

\* The literal "DRY_RUN": a text with no `---` line.
DryRunContent == [translationKey |-> None]

EmptyMap == [x \in {} |-> x]

SeqsUpTo(S, n) == UNION {[1..m -> S] : m \in 0..n}

\* Every order in which a walker may list the set S.
Orderings(S) ==
  {s \in [1..Cardinality(S) -> S] :
     \A i, j \in 1..Cardinality(S) : i # j => s[i] # s[j]}

(* ------------------------------ paths --------------------------------- *)

\* src/main.rs:342-343 (the extension test of find_markdown_files)
IsMarkdown(rel) == rel \in {"a.md", "b.md"}

IsAbsolute(p) == p = DevNull

\* PathBuf::join: an absolute argument replaces the base.
PathJoin(dir, p) ==
  IF IsAbsolute(p) THEN [dir |-> "/", rel |-> p] ELSE [dir |-> dir, rel |-> p]

AllPaths == {[dir |-> d, rel |-> r] : d \in ContentDirs, r \in RelPaths}

(* --------------------------- state ------------------------------------ *)

VARIABLES
  args,              \* Args: dry_run, auto, drafts
  hugo_config_dto,   \* what `hugo config` prints: languages, module.mounts
  hugo_drafts,       \* the paths `hugo list drafts` prints
  fs,                \* the files of the content directories: path -> text
  pc,                \* position of main
  result,            \* how main ended ("running" until then)
  language_configs,  \* HugoConfig.language_configs, an IndexMap
  draft_files,       \* main's draft_files
  scanned,           \* languages the loop of line 229 has gone through
  files_metadata,    \* main's files_metadata
  all_translations,  \* main's all_translations: key -> (language -> metadata)
  next_file,         \* sources the loop of line 262 has taken
  cur,               \* the source being translated, its text, its targets left
  run,               \* which run of the tool this is
  fs_at_start,       \* fs when this run started
  walked,            \* content directories walked by this run
  inserted,          \* the documents put in all_translations, in order
  writes,            \* the fs::write calls of this run, in order
  calls,             \* the translator calls of this run
  failed_pairs,      \* the (source, target) pairs whose translator call failed
  memo,              \* the answers the backend has given, by request
  \* GPTAutoTranslator and the remote service it talks to
  assistant,                  \* the OnceCell `assistant`
  thread,                     \* the OnceCell `thread`
  create_assistant_requests,  \* create_assistant requests sent
  create_thread_requests,     \* create_thread requests sent
  assistant_seen,             \* what calls of assistant() have returned
  thread_seen,                \* what calls of thread() have returned
  tpc,                        \* position of the call of run() in progress
  run_status,                 \* the status the last retrieve_run reported
  messages,                   \* the messages of the remote thread, as listed
  n_calls,                    \* translate_path/translate_content calls made
  answer                      \* what the last call returned

main_vars == <<args, hugo_config_dto, hugo_drafts, fs, pc, result, language_configs,
               draft_files, scanned, files_metadata, all_translations, next_file,
               cur, run, fs_at_start, walked, inserted, writes, calls,
               failed_pairs, memo>>

auto_vars == <<assistant, thread, create_assistant_requests, create_thread_requests,
               assistant_seen, thread_seen, tpc, run_status, messages, n_calls, answer>>

vars == <<main_vars, auto_vars>>

(* ------------------- HugoConfig::new (main.rs:62-91) ------------------- *)

\* IndexMap::insert: a new key goes last, a known key keeps its place and
\* takes the new value.
IndexMapInsert(m, k, v) ==
  IF \E i \in 1..Len(m) : m[i].key = k
  THEN [i \in 1..Len(m) |-> IF m[i].key = k THEN [key |-> k, value |-> v] ELSE m[i]]
  ELSE Append(m, [key |-> k, value |-> v])

IndexMapKeys(m) == {m[i].key : i \in 1..Len(m)}

IndexMapGet(m, k) == m[CHOOSE i \in 1..Len(m) : m[i].key = k].value

\* main.rs:65-70: the content directory of every mount that carries a lang.
RECURSIVE MountedContentDirs(_, _)
MountedContentDirs(mounts, content_dirs) ==
  IF mounts = <<>> THEN content_dirs
  ELSE LET mount == Head(mounts)
       IN  MountedContentDirs(Tail(mounts),
             IF mount.lang # None
             THEN IndexMapInsert(content_dirs, mount.lang, mount.source)
             ELSE content_dirs)

\* main.rs:74-77: the languages the configuration is built over, and the
\* lookup whose .expect("") panics.
ConfiguredIdentifiers(config) == IndexMapKeys(MountedContentDirs(config.mounts, <<>>))

HugoConfigNewPanics(config) ==
  \E language_identifier \in ConfiguredIdentifiers(config) :
     language_identifier \notin config.languages

\* main.rs:72-89: one entry per key of content_dirs, in its order.
HugoConfigNew(config) == MountedContentDirs(config.mounts, <<>>)

NoTranslationPossible_none(configs) == Len(configs) < 1

\* main.rs:222
NoTranslationPossible(configs) == Len(configs) < 2

(* ------------------ translator::auto_detect (19-27) -------------------- *)

auto_detect(a) ==
  IF a.dry_run THEN "DryRunTranslator"
  ELSE IF a.auto THEN "GPTAutoTranslator"
  ELSE "GPTManualTranslator"

(* --------------- FileMetadata::try_from (main.rs:113-162) -------------- *)

TryFromIsOk(content) == content.translationKey # None

FileMetadataTryFrom(path, language_identifier, content) ==
  [path |-> path,
   language_identifier |-> language_identifier,
   translation_key |-> content.translationKey]

\* main.rs:334-350: the Markdown files below a directory, in walker order.
MarkdownFilesIn(files, directory) ==
  {p \in DOMAIN files : p.dir = directory /\ IsMarkdown(p.rel)}

\* main.rs:234-239: flat_map drops every file try_from rejects.
RECURSIVE TranslatableFiles(_, _, _)
TranslatableFiles(paths, language_identifier, files) ==
  IF paths = <<>> THEN <<>>
  ELSE LET path == Head(paths)
           rest == TranslatableFiles(Tail(paths), language_identifier, files)
       IN  IF TryFromIsOk(files[path])
           THEN <<FileMetadataTryFrom(path, language_identifier, files[path])>> \o rest
           ELSE rest

\* main.rs:242-245: entry(key).or_insert(new map).insert(language, metadata);
\* HashMap::insert replaces the value of a key that is present.
InsertTranslation(translations, metadata) ==
  LET key   == metadata.translation_key
      inner == IF key \in DOMAIN translations THEN translations[key] ELSE EmptyMap
      upd   == [l \in DOMAIN inner \cup {metadata.language_identifier} |->
                  IF l = metadata.language_identifier THEN metadata ELSE inner[l]]
  IN  [k \in DOMAIN translations \cup {key} |->
         IF k = key THEN upd ELSE translations[k]]

\* main.rs:241-246
RECURSIVE InsertAll(_, _)
InsertAll(translations, metadatas) ==
  IF metadatas = <<>> THEN translations
  ELSE InsertAll(InsertTranslation(translations, Head(metadatas)), Tail(metadatas))

KeepAsSource_all(drafts, metadata) == TRUE

\* main.rs:248-255: the filter keeps what is not a listed draft.
KeepAsSource(drafts, metadata) == metadata.path \notin drafts

RECURSIVE FilterSources(_, _)
FilterSources(metadatas, drafts) ==
  IF metadatas = <<>> THEN <<>>
  ELSE (IF KeepAsSource(drafts, Head(metadatas)) THEN <<Head(metadatas)>> ELSE <<>>)
       \o FilterSources(Tail(metadatas), drafts)

\* main.rs:261-268
ToTranslate(all_languages, translations) == all_languages \ DOMAIN translations

\* main.rs:264: get(key).cloned().unwrap_or_default()
TranslationsOf(translations, key) ==
  IF key \in DOMAIN translations THEN translations[key] ELSE EmptyMap

(* ------------------------- the environment ---------------------------- *)

\* --dry-run makes --auto a flag nothing reads.
ArgSets == {a \in [dry_run : BOOLEAN, auto : BOOLEAN, drafts : BOOLEAN] :
              a.dry_run => ~a.auto}

\* The `languages` maps of the configuration dump (their keys).
LanguageMaps == {{"en"}, {"en", "fr"}, Langs}

\* The module.mounts lists of the configuration dump: at most MaxMounts
\* mounts, none listed twice.
MountLists ==
  {s \in SeqsUpTo(Mounts, MaxMounts) : \A i, j \in 1..Len(s) : i # j => s[i] # s[j]}

HugoConfigDTOs == [languages : LanguageMaps, mounts : MountLists]

MarkdownPaths == {p \in AllPaths : IsMarkdown(p.rel)}

\* The content trees a first run may find: at most MaxFiles Markdown pages.
InitialTrees ==
  UNION {[S -> Contents] : S \in {T \in SUBSET MarkdownPaths : Cardinality(T) <= MaxFiles}}

\* GPTAutoTranslator::new (translator.rs:182-204): both cells are empty and
\* nothing has been asked of the remote service.
TranslatorNew ==
  /\ assistant = "empty"
  /\ thread = "empty"
  /\ create_assistant_requests = 0
  /\ create_thread_requests = 0
  /\ assistant_seen = {}
  /\ thread_seen = {}
  /\ tpc = "idle"
  /\ run_status = "none"
  /\ messages = <<>>
  /\ n_calls = 0
  /\ answer = [kind |-> "none", text |-> <<>>]

NoSource == [valid |-> FALSE, to_translate |-> {}]

Unread == [languages |-> {}, mounts |-> <<>>]

Init ==
  /\ args \in ArgSets
  /\ hugo_config_dto = Unread
  /\ fs \in InitialTrees
  /\ hugo_drafts = {}
  /\ pc = "config"
  /\ result = "running"
  /\ language_configs = <<>>
  /\ draft_files = {}
  /\ scanned = 0
  /\ files_metadata = <<>>
  /\ all_translations = EmptyMap
  /\ next_file = 0
  /\ cur = NoSource
  /\ run = 1
  /\ fs_at_start = fs
  /\ walked = {}
  /\ inserted = <<>>
  /\ writes = <<>>
  /\ calls = {}
  /\ failed_pairs = {}
  /\ memo = [paths |-> EmptyMap, contents |-> EmptyMap]
  /\ TranslatorNew

(* ------------------------------- main ---------------------------------- *)

Return(r) == pc' = "done" /\ result' = r

\* main.rs:206-224: the translator is built, the configuration is read and
\* derived; fewer than two languages end the run.
LoadConfig ==
  /\ UNCHANGED <<auto_vars, inserted>>
  /\ pc = "config"
  /\ \E translator_ok, hugo_ok \in BOOLEAN :
       IF ~translator_ok /\ auto_detect(args) # "DryRunTranslator"
       THEN Return("TranslatorInitFailed") /\ UNCHANGED <<hugo_config_dto, language_configs>>
       ELSE IF ~hugo_ok
       THEN Return("HugoCommandFailed") /\ UNCHANGED <<hugo_config_dto, language_configs>>
       ELSE
       \E config \in (IF run = 1 THEN HugoConfigDTOs ELSE {hugo_config_dto}) :
         /\ hugo_config_dto' = config
         /\ IF HugoConfigNewPanics(config)
            THEN Return("panic") /\ UNCHANGED language_configs
            ELSE /\ language_configs' = HugoConfigNew(config)
                 /\ IF NoTranslationPossible(language_configs')
                    THEN Return("NoTranslationPossible")
                    ELSE pc' = "drafts" /\ UNCHANGED result
  /\ UNCHANGED <<args, hugo_drafts, fs, draft_files, scanned,
                 files_metadata, all_translations, next_file, cur, run,
                 fs_at_start, walked, writes, calls, failed_pairs, memo>>

\* main.rs:226-228
ListDrafts ==
  /\ UNCHANGED <<auto_vars, inserted>>
  /\ pc = "drafts"
  /\ IF args.drafts
     THEN /\ draft_files' = {}
          /\ pc' = "scan"
          /\ UNCHANGED <<result, hugo_drafts>>
     ELSE \E hugo_ok \in BOOLEAN :
            IF ~hugo_ok
            THEN Return("HugoCommandFailed") /\ UNCHANGED <<draft_files, hugo_drafts>>
            ELSE \E listed \in (IF run = 1 THEN SUBSET DOMAIN fs ELSE {hugo_drafts}) :
                   /\ hugo_drafts' = listed
                   /\ draft_files' = listed
                   /\ pc' = "scan"
                   /\ UNCHANGED result
  /\ UNCHANGED <<args, hugo_config_dto, fs, language_configs, scanned,
                 files_metadata, all_translations, next_file, cur, run,
                 fs_at_start, walked, writes, calls, failed_pairs, memo>>

\* main.rs:229-257: one turn of the loop over the configured languages.
ScanLanguage ==
  /\ UNCHANGED auto_vars
  /\ pc = "scan"
  /\ scanned < Len(language_configs)
  /\ LET language_identifier == language_configs[scanned + 1].key
         content_dir == language_configs[scanned + 1].value
     IN  \E files \in Orderings(MarkdownFilesIn(fs, content_dir)) :
           LET translatable_files == TranslatableFiles(files, language_identifier, fs)
           IN  /\ all_translations' = InsertAll(all_translations, translatable_files)
               /\ files_metadata' =
                    files_metadata \o FilterSources(translatable_files, draft_files)
               /\ walked' = walked \cup {content_dir}
               /\ inserted' = inserted \o translatable_files
  /\ scanned' = scanned + 1
  /\ pc' = IF scanned' = Len(language_configs) THEN "translate" ELSE "scan"
  /\ UNCHANGED <<args, hugo_config_dto, hugo_drafts, fs, result, language_configs,
                 draft_files, next_file, cur, run, fs_at_start, writes, calls,
                 failed_pairs, memo>>

\* The loop of line 282 has no target left for the source it holds.
SourceDone == cur.to_translate = {}

\* main.rs:262-280: the next source, its targets and its text.
BeginSource ==
  /\ UNCHANGED <<auto_vars, inserted>>
  /\ pc = "translate"
  /\ SourceDone
  /\ next_file < Len(files_metadata)
  /\ LET metadata == files_metadata[next_file + 1]
         translations == TranslationsOf(all_translations, metadata.translation_key)
         all_languages == IndexMapKeys(language_configs)
     IN  \E read_ok \in BOOLEAN :
           IF ~read_ok
           THEN Return("CouldNotReadFile") /\ UNCHANGED cur
           ELSE /\ cur' = [valid |-> TRUE,
                           metadata |-> metadata,
                           to_translate |-> ToTranslate(all_languages, translations),
                           original_content |-> fs[metadata.path],
                           content_file_path |-> metadata.path.rel]
                /\ UNCHANGED <<pc, result>>
  /\ next_file' = next_file + 1
  /\ UNCHANGED <<args, hugo_config_dto, hugo_drafts, fs, language_configs,
                 draft_files, scanned, files_metadata, all_translations, run,
                 fs_at_start, walked, writes, calls, failed_pairs, memo>>

(* ---------------- the translator, as main calls it --------------------- *)

PathRequest(path, from_lang, to_lang) ==
  [path |-> path, from_lang |-> from_lang, to_lang |-> to_lang]

\* The text of a page is more than its front matter: two pages are two
\* texts, so the request names the page the text was read from.
ContentRequest(path, text, from_lang, to_lang) ==
  [page |-> path, text |-> text, from_lang |-> from_lang, to_lang |-> to_lang]

\* What translate_path may answer (translator.rs:88-95, 139-153, 278-285).
PathAnswers(translator, request) ==
  IF translator = "DryRunTranslator" THEN {DevNull}
  ELSE IF request \in DOMAIN memo.paths THEN {memo.paths[request]}
  ELSE RelPaths

\* What translate_content may answer (translator.rs:97-105, 155-170, 287-295).
ContentAnswers(translator, request) ==
  IF translator = "DryRunTranslator" THEN {DryRunContent}
  ELSE IF request \in DOMAIN memo.contents THEN {memo.contents[request]}
  ELSE Contents

\* How a call may end: with an answer, with an error, and for the automatic
\* backend with the panic of an unwrap (translator.rs:248, 257).
CallOutcomes(translator, answered) ==
  IF translator = "DryRunTranslator" \/ answered THEN {"Ok"}
  ELSE IF translator = "GPTAutoTranslator" THEN {"Ok", "Err", "panic"}
  ELSE {"Ok", "Err"}

Remember(m, request, given) ==
  [r \in DOMAIN m \cup {request} |-> IF r = request THEN given ELSE m[r]]

AfterTranslatorError_continue == [pc |-> "translate", result |-> "running"]

\* main.rs:289, 292: the `?` on a translator call that returned an error.
AfterTranslatorError == [pc |-> "done", result |-> "TranslatorError"]

FsWrite_create_new(files, path, content) ==
  IF path.dir = "/" \/ path \in DOMAIN files THEN files
  ELSE [p \in DOMAIN files \cup {path} |-> IF p = path THEN content ELSE files[p]]

\* main.rs:296: fs::write creates the file or replaces its content; what is
\* written to the null sink is lost.
FsWrite(files, path, content) ==
  IF path.dir = "/" THEN files
  ELSE [p \in DOMAIN files \cup {path} |-> IF p = path THEN content ELSE files[p]]

\* main.rs:282-297: one turn of the loop over the targets of a source.
TranslatePair ==
  /\ UNCHANGED <<auto_vars, inserted>>
  /\ pc = "translate"
  /\ ~SourceDone
  /\ \E to_lang \in cur.to_translate :
       LET translator == auto_detect(args)
           from_lang == cur.metadata.language_identifier
           pair == [src |-> cur.metadata.path, from_lang |-> from_lang, to_lang |-> to_lang]
           path_request == PathRequest(cur.content_file_path, from_lang, to_lang)
           content_request ==
             ContentRequest(cur.metadata.path, cur.original_content, from_lang, to_lang)
           path_call ==
             [kind |-> "path", translation_key |-> cur.metadata.translation_key] @@ pair
           content_call ==
             [kind |-> "content", translation_key |-> cur.metadata.translation_key] @@ pair
           Fail(after) ==
             /\ pc' = after.pc
             /\ result' = after.result
             /\ UNCHANGED <<fs, writes, memo>>
       IN  /\ cur' = [cur EXCEPT !.to_translate = @ \ {to_lang}]
           /\ \E path_outcome \in CallOutcomes(translator, path_request \in DOMAIN memo.paths) :
                IF path_outcome = "Err"
                THEN /\ Fail(AfterTranslatorError)
                     /\ calls' = calls \cup {path_call}
                     /\ failed_pairs' = failed_pairs \cup {pair}
                ELSE IF path_outcome = "panic"
                THEN /\ Fail([pc |-> "done", result |-> "panic"])
                     /\ calls' = calls \cup {path_call}
                     /\ UNCHANGED failed_pairs
                ELSE
                \E path_answer \in PathAnswers(translator, path_request),
                   content_outcome \in
                     CallOutcomes(translator, content_request \in DOMAIN memo.contents) :
                  LET translated_file_path ==
                        PathJoin(IndexMapGet(language_configs, to_lang), path_answer)
                  IN  /\ calls' = calls \cup {path_call, content_call}
                      /\ IF content_outcome = "Err"
                         THEN /\ Fail(AfterTranslatorError)
                              /\ failed_pairs' = failed_pairs \cup {pair}
                         ELSE IF content_outcome = "panic"
                         THEN /\ Fail([pc |-> "done", result |-> "panic"])
                              /\ UNCHANGED failed_pairs
                         ELSE
                         \E translation \in ContentAnswers(translator, content_request),
                            write_ok \in BOOLEAN :
                           /\ UNCHANGED failed_pairs
                           /\ IF ~write_ok
                              THEN Fail([pc |-> "done", result |-> "WriteFailed"])
                              ELSE /\ fs' = FsWrite(fs, translated_file_path, translation)
                                   /\ writes' = Append(writes,
                                        [translation_key |-> cur.metadata.translation_key,
                                         path |-> translated_file_path,
                                         original_content |-> cur.original_content,
                                         content |-> translation] @@ pair)
                                   /\ memo' =
                                        [paths |-> Remember(memo.paths, path_request, path_answer),
                                         contents |-> Remember(memo.contents, content_request,
                                                               translation)]
                                   /\ UNCHANGED <<pc, result>>
  /\ UNCHANGED <<args, hugo_config_dto, hugo_drafts, language_configs, draft_files,
                 scanned, files_metadata, all_translations, next_file, run,
                 fs_at_start, walked>>

\* main.rs:298-300: no source is left.
ReturnOk ==
  /\ UNCHANGED <<auto_vars, inserted>>
  /\ pc = "translate"
  /\ SourceDone
  /\ next_file = Len(files_metadata)
  /\ Return("Ok")
  /\ UNCHANGED <<args, hugo_config_dto, hugo_drafts, fs, language_configs,
                 draft_files, scanned, files_metadata, all_translations, next_file,
                 cur, run, fs_at_start, walked, writes, calls, failed_pairs, memo>>

\* The tool is started again on the tree the run left, with the same flags,
\* configuration and draft list, and a backend that answers as it did.
Rerun ==
  /\ UNCHANGED auto_vars
  /\ pc = "done"
  /\ result = "Ok"
  /\ run = 1
  /\ run' = 2
  /\ pc' = "config"
  /\ result' = "running"
  /\ language_configs' = <<>>
  /\ draft_files' = {}
  /\ scanned' = 0
  /\ files_metadata' = <<>>
  /\ all_translations' = EmptyMap
  /\ next_file' = 0
  /\ cur' = NoSource
  /\ fs_at_start' = fs
  /\ walked' = {}
  /\ inserted' = <<>>
  /\ writes' = <<>>
  /\ calls' = {}
  /\ failed_pairs' = {}
  /\ UNCHANGED <<args, hugo_config_dto, hugo_drafts, fs, memo>>

\* One run of the tool.
Next ==
  \/ LoadConfig
  \/ ListDrafts
  \/ ScanLanguage
  \/ BeginSource
  \/ TranslatePair
  \/ ReturnOk

Spec == Init /\ [][Next]_vars

\* A run, and a second run on the tree a successful first run left.
NextRerun ==
  \/ Next
  \/ Rerun

RerunSpec == Init /\ [][NextRerun]_vars

(* --------------- GPTAutoTranslator (translator.rs:173-296) ------------- *)

\* translate_path/translate_content calls made on one translator.
MaxCalls == 3

\* The statuses retrieve_run may report.
RunStatuses == {"queued", "in_progress", "completed", "failed"}

NeedsInit_retry(cell) == cell # "Ok"

\* OnceCell::get_or_init (translator.rs:207, 221): the closure, and with it
\* the remote request, runs when the cell holds nothing.
NeedsInit(cell) == cell = "empty"

GetOrInit(cell, created) == IF NeedsInit(cell) THEN created ELSE cell

PollBreaks_terminal(status) == status \in {"completed", "failed"}

\* translator.rs:249: the poll that ends the loop.
PollBreaks(status) == status = "completed"

Concatenate_last(listed) ==
  IF listed = <<>> THEN <<>> ELSE listed[Len(listed)].content

\* translator.rs:258-267: the text of every content of every message listed.
RECURSIVE Concatenate(_)
Concatenate(listed) ==
  IF listed = <<>> THEN <<>> ELSE Head(listed).content \o Concatenate(Tail(listed))

UserMessage(kind, n) == [role |-> "user", content |-> <<[prompt |-> kind, call |-> n]>>]

AssistantMessage(n) == [role |-> "assistant", content |-> <<[reply |-> n]>>]

ReturnErr == tpc' = "idle" /\ answer' = [kind |-> "Err", text |-> <<>>]

\* translator.rs:232-243: run() up to its polling loop, for the prompt of a
\* translate_path (kind "path") or translate_content (kind "content") call.
RunStart(kind) ==
  /\ tpc = "idle"
  /\ n_calls < MaxCalls
  /\ n_calls' = n_calls + 1
  /\ run_status' = "none"
  /\ \E created_assistant, created_thread \in {"Ok", "Err"},
        message_ok, run_ok \in BOOLEAN :
       LET assistant_result == GetOrInit(assistant, created_assistant)
           thread_result == GetOrInit(thread, created_thread)
       IN  /\ assistant' = assistant_result
           /\ create_assistant_requests' =
                create_assistant_requests + (IF NeedsInit(assistant) THEN 1 ELSE 0)
           /\ assistant_seen' = assistant_seen \cup {assistant_result}
           /\ IF assistant_result = "Err"
              THEN /\ ReturnErr
                   /\ UNCHANGED <<thread, create_thread_requests, thread_seen, messages>>
              ELSE /\ thread' = thread_result
                   /\ create_thread_requests' =
                        create_thread_requests + (IF NeedsInit(thread) THEN 1 ELSE 0)
                   /\ thread_seen' = thread_seen \cup {thread_result}
                   /\ IF thread_result = "Err"
                      THEN ReturnErr /\ UNCHANGED messages
                      ELSE IF ~message_ok
                      THEN ReturnErr /\ UNCHANGED messages
                      ELSE /\ messages' = Append(messages, UserMessage(kind, n_calls'))
                           /\ IF ~run_ok
                              THEN ReturnErr
                              ELSE tpc' = "poll" /\ UNCHANGED answer
  /\ UNCHANGED main_vars

\* translator.rs:278-285
AutoTranslatePath == RunStart("path")

\* translator.rs:287-295
AutoTranslateContent == RunStart("content")

\* translator.rs:245-255: one turn of the polling loop. The remote run has
\* put its reply on the thread by the time it reports `completed`.
RunPoll ==
  /\ tpc = "poll"
  /\ \E retrieve_ok \in BOOLEAN, status \in RunStatuses :
       IF ~retrieve_ok
       THEN /\ tpc' = "panicked"
            /\ UNCHANGED <<run_status, messages>>
       ELSE /\ run_status' = status
            /\ messages' = IF status = "completed"
                           THEN Append(messages, AssistantMessage(n_calls))
                           ELSE messages
            /\ tpc' = IF PollBreaks(status) THEN "list" ELSE "poll"
  /\ UNCHANGED <<assistant, thread, create_assistant_requests, create_thread_requests,
                 assistant_seen, thread_seen, n_calls, answer>>
  /\ UNCHANGED main_vars

\* translator.rs:257-269: the messages are listed and their text returned.
RunList ==
  /\ tpc = "list"
  /\ \E list_ok \in BOOLEAN :
       IF ~list_ok
       THEN tpc' = "panicked" /\ UNCHANGED answer
       ELSE /\ answer' = [kind |-> "Ok", text |-> Concatenate(messages)]
            /\ tpc' = "idle"
  /\ UNCHANGED <<assistant, thread, create_assistant_requests, create_thread_requests,
                 assistant_seen, thread_seen, run_status, messages, n_calls>>
  /\ UNCHANGED main_vars

\* The site of main before it has run; the translator is used on its own.
AutoInit ==
  /\ args = [dry_run |-> FALSE, auto |-> TRUE, drafts |-> FALSE]
  /\ hugo_config_dto = Unread
  /\ fs = EmptyMap
  /\ hugo_drafts = {}
  /\ pc = "config"
  /\ result = "running"
  /\ language_configs = <<>>
  /\ draft_files = {}
  /\ scanned = 0
  /\ files_metadata = <<>>
  /\ all_translations = EmptyMap
  /\ next_file = 0
  /\ cur = NoSource
  /\ run = 1
  /\ fs_at_start = EmptyMap
  /\ walked = {}
  /\ inserted = <<>>
  /\ writes = <<>>
  /\ calls = {}
  /\ failed_pairs = {}
  /\ memo = [paths |-> EmptyMap, contents |-> EmptyMap]
  /\ TranslatorNew

AutoNext ==
  \/ AutoTranslatePath
  \/ AutoTranslateContent
  \/ RunPoll
  \/ RunList

\* Any sequence of calls on one automatic translator.
AutoSpec == AutoInit /\ [][AutoNext]_vars

(* ======================= the properties checked ======================== *)

ConfiguredLanguages == IndexMapKeys(language_configs)

\* The documents of a tree: its Markdown pages that carry a translation key,
\* each under the language whose content directory holds it.
DocumentsOf(tree) ==
  {[path |-> x[1],
    language_identifier |-> language_configs[x[2]].key,
    translation_key |-> tree[x[1]].translationKey] :
     x \in {y \in (DOMAIN tree) \X (1..Len(language_configs)) :
              /\ IsMarkdown(y[1].rel)
              /\ language_configs[y[2]].value = y[1].dir
              /\ tree[y[1]].translationKey # None}}

\* A document may be a source: any with --drafts, the non-drafts without.
UsableAsSource(d) == args.drafts \/ d.path \notin hugo_drafts

CellOccupied(tree, key, lang) ==
  \E d \in DocumentsOf(tree) : d.translation_key = key /\ d.language_identifier = lang

WrittenFor(pair) ==
  \E i \in 1..Len(writes) :
     /\ writes[i].src = pair.src
     /\ writes[i].to_lang = pair.to_lang

\* Every text the backend gave back carries the translationKey of the text
\* it was given, as the prompt asks (translator.rs:68).
KeyKeepingAnswers ==
  \A r \in DOMAIN memo.contents : memo.contents[r].translationKey = r.text.translationKey

RunReturnedOk == pc = "done" /\ result = "Ok"

\* C1. Gap correctness: after a run that returned successfully, every cell
\* (K, L), K a key held by a document usable as a source and L a configured
\* language, holds a document. Stated for the most favourable backend: not
\* the dry run, and every answer keeping the key of its source.
C1_GapCorrectness ==
  (RunReturnedOk /\ auto_detect(args) # "DryRunTranslator" /\ KeyKeepingAnswers) =>
     \A d \in {e \in DocumentsOf(fs_at_start) : UsableAsSource(e)} :
        \A l \in ConfiguredLanguages : CellOccupied(fs, d.translation_key, l)

\* The paths held by a document of all_translations.
IndexedPaths ==
  UNION {{all_translations[k][l].path : l \in DOMAIN all_translations[k]} :
           k \in DOMAIN all_translations}

\* C2. Non-destruction: whatever translate_path answers, no path the run
\* writes is one that a document of the index occupied when the run started.
C2_NonDestruction ==
  \A i \in 1..Len(writes) :
     ~(writes[i].path \in IndexedPaths /\ writes[i].path \in DOMAIN fs_at_start)

\* The documents `hugo list drafts` named, when --drafts is off.
DraftDocuments ==
  IF args.drafts THEN {} ELSE {d \in DocumentsOf(fs_at_start) : d.path \in hugo_drafts}

ScanComplete == pc = "translate" \/ (pc = "done" /\ scanned > 0 /\ scanned = Len(language_configs))

\* C3. Draft exclusion: with --drafts off, a listed draft is never the source
\* of a translator call; it is in the index all the same once its language
\* has been scanned, and no call for a document that shares its key is made
\* towards its language.
C3_DraftExclusion ==
  ~args.drafts =>
     /\ \A c \in calls : c.src \notin hugo_drafts
     /\ \A d \in DraftDocuments :
          /\ ScanComplete =>
               /\ d.translation_key \in DOMAIN all_translations
               /\ d.language_identifier \in DOMAIN all_translations[d.translation_key]
          /\ \A c \in calls :
               c.translation_key = d.translation_key => c.to_lang # d.language_identifier

\* A draft shares its key with a page of another language that is a source,
\* and the run has ended well.
C3_Witness ==
  /\ ~args.drafts
  /\ RunReturnedOk
  /\ \E d \in DraftDocuments :
       \E i \in 1..Len(files_metadata) :
          /\ files_metadata[i].translation_key = d.translation_key
          /\ files_metadata[i].language_identifier # d.language_identifier

\* The first document inserted for a cell.
FirstInserted(key, lang) ==
  inserted[CHOOSE i \in 1..Len(inserted) :
             /\ inserted[i].translation_key = key
             /\ inserted[i].language_identifier = lang
             /\ \A j \in 1..(i - 1) :
                  ~(inserted[j].translation_key = key /\ inserted[j].language_identifier = lang)]

\* C4. Duplicate cells: the index never holds, for a cell that two documents
\* claimed, another document than the first inserted (the run does not
\* reject duplicates, so keeping the first is what remains of the claim).
C4_NoLastWriteWins ==
  \A k \in DOMAIN all_translations :
     \A l \in DOMAIN all_translations[k] :
        all_translations[k][l] = FirstInserted(k, l)

\* The (source, target) pairs of the run: every source with every language
\* its key lacks.
GapPairs ==
  {p \in [src : {files_metadata[i].path : i \in 1..Len(files_metadata)},
          from_lang : ConfiguredLanguages, to_lang : ConfiguredLanguages] :
     \E i \in 1..Len(files_metadata) :
        /\ files_metadata[i].path = p.src
        /\ files_metadata[i].language_identifier = p.from_lang
        /\ p.to_lang \notin
             DOMAIN TranslationsOf(all_translations, files_metadata[i].translation_key)}

\* The pairs the run has not come to.
PairsLeft ==
  {p \in GapPairs :
     \/ (cur.valid /\ p.src = cur.metadata.path /\ p.to_lang \in cur.to_translate)
     \/ \E i \in (next_file + 1)..Len(files_metadata) : files_metadata[i].path = p.src}

\* C5 as the specification states it: a translator error drops its pair
\* only, and every other pair of the run is translated and written.
C5_PerPairIsolation ==
  (pc = "done" /\ failed_pairs # {}) =>
     \A p \in GapPairs \ failed_pairs : WrittenFor(p)

\* C5 as the code has it: the error of translate_path or translate_content
\* ends the run at once with that error; the pair that failed and every pair
\* the run had not come to are not written.
C5_ErrorEndsRun ==
  failed_pairs # {} =>
     /\ pc = "done"
     /\ result = "TranslatorError"
     /\ Cardinality(failed_pairs) = 1
     /\ \A p \in failed_pairs \cup PairsLeft : ~WrittenFor(p)

\* A translator call failed before another pair was reached.
C5_Witness ==
  /\ failed_pairs # {}
  /\ PairsLeft # {}

\* C6. Single-language abort: a derived configuration of fewer than two
\* languages ends the run with NoTranslationPossible, and then no content
\* directory was walked, no translator call made and no file written.
C6_SingleLanguageAbort ==
  LET read == hugo_config_dto # Unread
  IN  (read /\ ~HugoConfigNewPanics(hugo_config_dto)
            /\ Len(HugoConfigNew(hugo_config_dto)) < 2) =>
        /\ pc = "done"
        /\ result = "NoTranslationPossible"
        /\ walked = {}
        /\ calls = {}
        /\ writes = <<>>
        /\ fs = fs_at_start

\* One language is configured, and its content directory holds a page.
C6_Witness ==
  /\ result = "NoTranslationPossible"
  /\ Len(language_configs) = 1
  /\ \E p \in DOMAIN fs : p.dir = language_configs[1].value

\* The languages of the `languages` map that no mount carries.
UnmountedLanguages(config) == config.languages \ ConfiguredIdentifiers(config)

\* C7. Unmounted language: a language of the `languages` map that no mount
\* carries makes the configuration fail; the run never goes on without it.
C7_UnmountedFailsFast ==
  (hugo_config_dto # Unread /\ UnmountedLanguages(hugo_config_dto) # {}) =>
     (pc = "done" /\ result \notin {"running", "Ok"})

\* C8. Write-once session handles: over any sequence of calls, failed
\* creations included, create_assistant is requested at most once and
\* create_thread at most once, and the calls of assistant() and of thread()
\* all return one and the same stored result.
C8_WriteOnceHandles ==
  /\ create_assistant_requests <= 1
  /\ create_thread_requests <= 1
  /\ Cardinality(assistant_seen) <= 1
  /\ Cardinality(thread_seen) <= 1

\* The creation of a handle failed, and calls were made after the failure.
C8_Witness ==
  /\ n_calls = MaxCalls
  /\ tpc = "idle"
  /\ assistant = "Ok"
  /\ thread = "Err"

\* A call that went into the polling loop has ended.
CallEnded == tpc = "panicked" \/ (tpc = "idle" /\ answer.kind = "Ok")

\* C9 as the specification states it: the messages are listed and the answer
\* returned only after a poll saw `completed`, any other status keeps the
\* call polling, and the call ends only if the status became `completed`.
C9_EndsIffCompleted ==
  /\ (tpc = "list" \/ (tpc = "idle" /\ answer.kind = "Ok")) => run_status = "completed"
  /\ run_status \notin {"none", "completed"} => tpc = "poll"
  /\ CallEnded => run_status = "completed"

\* C9 as the code has it: the messages are listed and the answer returned
\* only after a poll saw `completed`; after a poll that saw any other status
\* the call is polling still, unless a later retrieve_run failed, which
\* panics; a poll that saw `completed` ends the polling.
C9_Polling ==
  /\ (tpc = "list" \/ (tpc = "idle" /\ answer.kind = "Ok")) => run_status = "completed"
  /\ run_status \notin {"none", "completed"} => tpc \in {"poll", "panicked"}
  /\ run_status = "completed" => tpc # "poll"

\* A poll saw the terminal status `failed`, and the call polls on.
C9_Witness ==
  /\ tpc = "poll"
  /\ run_status = "failed"

\* C10. Idempotence under re-run: the second run, on the tree a successful
\* first run left, with the same flags, configuration and draft list and a
\* backend that answers as it did, leaves the set of files as it found it.
\* Stated for a backend whose every answer keeps the key of its source.
C10_RerunLeavesFilesUnchanged ==
  (run = 2 /\ KeyKeepingAnswers) => DOMAIN fs = DOMAIN fs_at_start

\* A call of the automatic backend has returned an answer.
Answered == tpc = "idle" /\ answer.kind = "Ok"

\* The texts the thread holds, message after message in listing order.
ThreadTexts ==
  [i \in 1..Len(messages) |-> messages[i].content[1]]

\* C11. Answer aggregation: the answer of a call is the text of every message
\* of the one shared thread, in listing order: it ends with the reply to the
\* prompt of the call, and holds before it the prompt of the call and every
\* prompt and reply that earlier calls left on the thread.
C11_AnswerAggregation ==
  Answered =>
    /\ answer.text = ThreadTexts
    /\ answer.text[Len(answer.text)] = [reply |-> n_calls]
    /\ \E i \in 1..Len(answer.text) :
         \E kind \in {"path", "content"} : answer.text[i] = [prompt |-> kind, call |-> n_calls]
    /\ \A k \in 1..(n_calls - 1) :
         /\ (\E i \in 1..Len(messages) : messages[i] = AssistantMessage(k)) =>
              (\E j \in 1..Len(answer.text) : answer.text[j] = [reply |-> k])
         /\ \A kind \in {"path", "content"} :
              (\E i \in 1..Len(messages) : messages[i] = UserMessage(kind, k)) =>
                (\E j \in 1..Len(answer.text) : answer.text[j] = [prompt |-> kind, call |-> k])

\* The second call has answered, after a first call that was answered too:
\* its answer holds the prompt and the reply of the first call.
C11_Witness ==
  /\ Answered
  /\ n_calls = 2
  /\ \E j \in 1..Len(answer.text) : answer.text[j] = [reply |-> 1]
  /\ \E j \in 1..Len(answer.text) : answer.text[j] = [prompt |-> "path", call |-> 1]

\* The writes of the run for a key towards a language.
WritesFor(key, lang) ==
  {i \in 1..Len(writes) : writes[i].translation_key = key /\ writes[i].to_lang = lang}

\* The last write of the run to a path.
LastWriteTo(path) ==
  CHOOSE i \in 1..Len(writes) :
    /\ writes[i].path = path
    /\ \A j \in (i + 1)..Len(writes) : writes[j].path # path

\* C12. One translation per source, not per cell: a source is translated
\* towards a language at most once; after a run that returned successfully, a
\* key that m documents usable as sources hold and that language L lacked at
\* the start has m translate_path/translate_content/write sequences towards
\* L, one per source; and a file the run wrote holds what the last write to
\* its path put there.
C12_OneTranslationPerSource ==
  /\ \A i, j \in 1..Len(writes) :
       (writes[i].src = writes[j].src /\ writes[i].to_lang = writes[j].to_lang) => i = j
  /\ RunReturnedOk =>
       LET documents == DocumentsOf(fs_at_start)
       IN  \A key \in Keys : \A lang \in ConfiguredLanguages :
             LET sources ==
                   {d \in documents : d.translation_key = key /\ UsableAsSource(d)}
                 lacking ==
                   \A d \in documents :
                      ~(d.translation_key = key /\ d.language_identifier = lang)
             IN  lacking =>
                   /\ Cardinality(WritesFor(key, lang)) = Cardinality(sources)
                   /\ \A d \in sources :
                        /\ \E i \in WritesFor(key, lang) : writes[i].src = d.path
                        /\ \A kind \in {"path", "content"} :
                             \E c \in calls :
                                /\ c.kind = kind
                                /\ c.src = d.path
                                /\ c.to_lang = lang
                                /\ c.translation_key = key
  /\ \A i \in 1..Len(writes) :
       writes[i].path.dir # "/" =>
          /\ writes[i].path \in DOMAIN fs
          /\ fs[writes[i].path] = writes[LastWriteTo(writes[i].path)].content

\* Two sources of one key were translated towards the language the key
\* lacked, to the same path and with different texts, and the run ended well.
C12_Witness ==
  /\ RunReturnedOk
  /\ \E i, j \in 1..Len(writes) :
       /\ i < j
       /\ writes[i].src # writes[j].src
       /\ writes[i].translation_key = writes[j].translation_key
       /\ writes[i].to_lang = writes[j].to_lang
       /\ writes[i].path = writes[j].path
       /\ writes[i].path.dir # "/"
       /\ writes[i].content # writes[j].content
       /\ ~CellOccupied(fs_at_start, writes[i].translation_key, writes[i].to_lang)

====
